---- MODULE Spec2Model ----
(***************************************************************************)
(* Model of release_bot/releasebot.py: the poll loop ReleaseBot.run and    *)
(* the phases it drives (configuration load, release pull request          *)
(* discovery, Github / PyPI / Fedora publication, release issue discovery, *)
(* release pull request creation, end-of-cycle comment).                   *)
(*                                                                         *)
(* The collaborators (Git, Github, PyPi, Fedora, configuration) are not    *)
(* part of releasebot.py; their effect on the hosted state is modelled     *)
(* from the interface description: a successful make_new_release moves     *)
(* the latest hosted release, a successful pypi.release moves the latest   *)
(* package-index version, add_comment posts and clears the comment list,   *)
(* close_issue removes the issue from the open issues.                     *)
(***************************************************************************)
EXTENDS Integers, Sequences, FiniteSets, TLC

(***************************************************************************)
(* Bounds of the model.                                                    *)
(***************************************************************************)
MaxCycles == 2
MaxFailures == 1

(***************************************************************************)
(* Page size of the cursor pagination (walk_through_prs /                  *)
(* walk_through_open_issues).                                              *)
(***************************************************************************)
PageSize == 2

(***************************************************************************)
(* Python optionals: None is the empty tuple, a present value x is <<x>>.  *)
(* A version is a triple <<major, minor, patch>>; text that is no          *)
(* semantic version is BadText.                                            *)
(***************************************************************************)
None == <<>>
BadText == <<>>
NoId == "None"

V(a, b, c) == <<a, b, c>>

\* semantic_version.validate(version)
validate(version) == Len(version) = 3

\* Version.__lt__ / __ge__ on major.minor.patch
VerLess(a, b) ==
    \/ a[1] < b[1]
    \/ a[1] = b[1] /\ a[2] < b[2]
    \/ a[1] = b[1] /\ a[2] = b[2] /\ a[3] < b[3]

VerGE(a, b) == ~VerLess(a, b)

\* Version.next_major / next_minor / next_patch
next_major(v) == <<v[1] + 1, 0, 0>>
next_minor(v) == <<v[1], v[2] + 1, 0>>
next_patch(v) == <<v[1], v[2], v[3] + 1>>

(***************************************************************************)
(* Titles.  kind "major" / "minor" / "patch" is the lower-cased title      *)
(* "new major release" etc.; kind "version" is "<ver> release" with a      *)
(* valid version text; kind "text" is "<words> release" whose words are no *)
(* version; kind "other" does not contain " release" at all.               *)
(***************************************************************************)
Title(kind, ver) == [kind |-> kind, ver |-> ver]

\* re.match(r'(.+) release', title.lower()): whether it matches
ReMatches(title) == title.kind # "other"

\* re_match[1].strip(): the text in front of " release"
ReGroup(title) == IF title.kind = "version" THEN title.ver ELSE BadText

\* The title matching of both discovery phases (lines 85-99 and 143-157):
\* [match, version]
TitleMatch(title, last_version) ==
    LET m0 == ReMatches(title)
        v0 == IF m0 THEN ReGroup(title) ELSE BadText
    IN  IF title.kind = "major"
          THEN [match |-> TRUE, version |-> next_major(last_version)]
        ELSE IF title.kind = "minor"
          THEN [match |-> TRUE, version |-> next_minor(last_version)]
        ELSE IF title.kind = "patch"
          THEN [match |-> TRUE, version |-> next_patch(last_version)]
        ELSE [match |-> m0, version |-> v0]

(***************************************************************************)
(* Cursor pagination, direction 'before': the page holds the (at most      *)
(* PageSize) entries in front of the cursor, in list order; the empty      *)
(* cursor '' (0) starts behind the last entry.  An edge is                 *)
(* [cursor, node].                                                         *)
(***************************************************************************)
WalkThrough(list, cursor) ==
    LET hi == IF cursor = 0 THEN Len(list) ELSE cursor - 1
        lo == IF hi - PageSize + 1 < 1 THEN 1 ELSE hi - PageSize + 1
    IN  [i \in 1..(hi - lo + 1) |-> [cursor |-> lo + i - 1, node |-> list[lo + i - 1]]]

\* reversed(edges)
Reversed(s) == [i \in 1..Len(s) |-> s[Len(s) + 1 - i]]

(***************************************************************************)
(* find_newest_release_pull_request.  A closed pull request node is        *)
(* [id, title, mergeCommit]; mergeCommit is the commit oid or NoId (null). *)
(* The result is [status, version, node]: "found" (return True), "none"    *)
(* (return False) or "crash": subscripting the null mergeCommit raises     *)
(* TypeError, which is no ReleaseException.                                *)
(***************************************************************************)
NoNode == [id |-> NoId, title |-> Title("other", BadText), mergeCommit |-> NoId]

PRMatches(node, last_version) ==
    LET m == TitleMatch(node.title, last_version)
    IN  m.match /\ validate(m.version)

RECURSIVE ScanPRPage(_, _, _)
ScanPRPage(edges, i, last_version) ==
    IF i > Len(edges)
      THEN [status |-> "none", version |-> BadText, node |-> NoNode]
    ELSE IF PRMatches(edges[i].node, last_version)
      THEN [status |-> IF edges[i].node.mergeCommit = NoId THEN "crash" ELSE "found",
            version |-> TitleMatch(edges[i].node.title, last_version).version,
            node |-> edges[i].node]
    ELSE ScanPRPage(edges, i + 1, last_version)

RECURSIVE FindNewestReleasePR(_, _, _)
FindNewestReleasePR(list, cursor, last_version) ==
    LET edges == WalkThrough(list, cursor)
    IN  IF edges = <<>>
          THEN [status |-> "none", version |-> BadText, node |-> NoNode]
        ELSE LET r == ScanPRPage(Reversed(edges), 1, last_version)
             IN  IF r.status # "none" THEN r
                 ELSE FindNewestReleasePR(list, edges[1].cursor, last_version)

(***************************************************************************)
(* find_open_release_issues.  An open issue node is                        *)
(* [id, number, title, authorAssociation].  release_issues is the dict     *)
(* keyed by version: a function from versions to nodes, a later issue of   *)
(* the same version replacing the earlier one.                             *)
(***************************************************************************)
\* Variant: the author association is not checked
PrivilegedAnyone(assoc) == TRUE

Privileged(assoc) == assoc \in {"MEMBER", "OWNER", "COLLABORATOR"}

\* lines 101-112: the issue is entered into release_issues
IssueQualifies(node, last_version) ==
    LET m == TitleMatch(node.title, last_version)
    IN  m.match /\ validate(m.version) /\ Privileged(node.authorAssociation)

RECURSIVE ScanIssuePage(_, _, _, _)
ScanIssuePage(edges, i, last_version, release_issues) ==
    IF i > Len(edges) THEN release_issues
    ELSE LET node == edges[i].node
             version == TitleMatch(node.title, last_version).version
         IN  ScanIssuePage(edges, i + 1, last_version,
                 IF IssueQualifies(node, last_version)
                   THEN (version :> node) @@ release_issues
                   ELSE release_issues)

RECURSIVE CollectReleaseIssues(_, _, _, _)
CollectReleaseIssues(list, cursor, last_version, release_issues) ==
    LET edges == WalkThrough(list, cursor)
    IN  IF edges = <<>> THEN release_issues
        ELSE CollectReleaseIssues(list, edges[1].cursor, last_version,
                 ScanIssuePage(Reversed(edges), 1, last_version, release_issues))

NoPr == [version |-> BadText, issue_id |-> NoId, issue_number |-> 0,
         labels |-> None, previous_version |-> BadText, pr_url |-> NoId]

\* Variant: any non-empty release_issues is acted on
IssuesOutcomeAny(release_issues, labels, old_pr) ==
    IF Cardinality(DOMAIN release_issues) >= 1
      THEN LET version == CHOOSE v \in DOMAIN release_issues : TRUE
               node == release_issues[version]
           IN  [found |-> TRUE,
                new_pr |-> [version |-> version, issue_id |-> node.id,
                            issue_number |-> node.number, labels |-> labels,
                            previous_version |-> BadText, pr_url |-> NoId]]
    ELSE [found |-> FALSE, new_pr |-> old_pr]

\* lines 113-125: the return value and the new_pr it leaves
IssuesOutcome(release_issues, labels, old_pr) ==
    IF Cardinality(DOMAIN release_issues) > 1
      THEN [found |-> FALSE, new_pr |-> old_pr]
    ELSE IF Cardinality(DOMAIN release_issues) = 1
      THEN LET version == CHOOSE v \in DOMAIN release_issues : TRUE
               node == release_issues[version]
           IN  [found |-> TRUE,
                new_pr |-> [version |-> version, issue_id |-> node.id,
                            issue_number |-> node.number, labels |-> labels,
                            previous_version |-> BadText, pr_url |-> NoId]]
    ELSE [found |-> FALSE, new_pr |-> old_pr]

FindOpenReleaseIssues(list, last_version, labels, old_pr) ==
    IssuesOutcome(CollectReleaseIssues(list, 0, last_version, <<>>), labels, old_pr)

(***************************************************************************)
(* State.                                                                  *)
(*   pc, cycle     position of run() and the number of the poll cycle      *)
(*   new_release   self.new_release (absent keys hold None / NoId / FALSE) *)
(*   new_pr        self.new_pr                                             *)
(*   comment       self.github.comment, the notification log               *)
(*   ghLatest      github.latest_release()                                 *)
(*   pypiLatest    pypi.latest_version()                                   *)
(*   closedPRs     the closed pull requests, oldest first                  *)
(*   openIssues    the open issues, oldest first                           *)
(*   conf          the release-conf.yaml of the repository                 *)
(*   failures      collaborator calls that failed so far                   *)
(*   log           history: the collaborator calls made, in order          *)
(***************************************************************************)
VARIABLES pc, cycle, new_release, new_pr, comment, ghLatest, pypiLatest,
          closedPRs, openIssues, conf, failures, log

vars == <<pc, cycle, new_release, new_pr, comment, ghLatest, pypiLatest,
          closedPRs, openIssues, conf, failures, log>>

\* self.new_release = {} (lines 47, 53)
EmptyRelease == [version |-> BadText, commitish |-> NoId, pr_id |-> NoId,
                 fedora |-> FALSE, trigger_on_issue |-> FALSE, labels |-> None]

(***************************************************************************)
(* The hosted state the bot is started against.                            *)
(***************************************************************************)
PR(n, kind, ver, merged) ==
    [id |-> <<"pr1", "pr2", "pr3">>[n], title |-> Title(kind, ver),
     mergeCommit |-> IF merged THEN <<"c1", "c2", "c3">>[n] ELSE NoId]

Issue(n, kind, ver, assoc) ==
    [id |-> <<"i1", "i2", "i3">>[n], number |-> n, title |-> Title(kind, ver),
     authorAssociation |-> assoc]

PRLists ==
    {<<>>}
    \cup {<<PR(1, k, BadText, TRUE)>> : k \in {"major", "minor", "patch", "text", "other"}}
    \cup {<<PR(1, "version", v, TRUE)>> : v \in {V(1, 1, 0), V(0, 9, 0)}}
    \cup {<<PR(1, "version", V(1, 1, 0), FALSE)>>,
          <<PR(1, "version", V(1, 1, 0), TRUE), PR(2, "other", BadText, TRUE)>>,
          <<PR(1, "minor", BadText, TRUE), PR(2, "version", V(1, 1, 0), TRUE)>>,
          <<PR(1, "version", V(1, 1, 0), TRUE), PR(2, "minor", BadText, FALSE)>>,
          <<PR(1, "version", V(1, 1, 0), TRUE), PR(2, "text", BadText, FALSE),
            PR(3, "other", BadText, TRUE)>>}

FewPRLists == {<<>>, <<PR(1, "version", V(1, 1, 0), TRUE)>>}

IssueLists ==
    {<<>>}
    \cup {<<Issue(1, "minor", BadText, a)>> : a \in {"MEMBER", "NONE"}}
    \cup {<<Issue(1, "version", v, "OWNER")>> : v \in {V(1, 1, 0), V(0, 9, 0)}}
    \cup {<<Issue(1, "text", BadText, "MEMBER")>>,
          <<Issue(1, "minor", BadText, "MEMBER"),
            Issue(2, "version", V(1, 1, 0), "COLLABORATOR")>>,
          <<Issue(1, "minor", BadText, "MEMBER"), Issue(2, "major", BadText, "MEMBER")>>,
          <<Issue(1, "version", V(1, 1, 0), "MEMBER"),
            Issue(2, "version", V(1, 2, 0), "CONTRIBUTOR")>>,
          <<Issue(1, "patch", BadText, "MEMBER"), Issue(2, "other", BadText, "MEMBER"),
            Issue(3, "text", BadText, "NONE")>>,
          <<Issue(1, "patch", BadText, "MEMBER"), Issue(2, "other", BadText, "MEMBER"),
            Issue(3, "version", V(2, 0, 0), "OWNER")>>}

FewIssueLists == {<<>>, <<Issue(1, "minor", BadText, "MEMBER")>>}

Confs(fedoras, triggers, labelss) ==
    [fedora : fedoras, trigger_on_issue : triggers, labels : labelss]

Init ==
    /\ pc = "pull"
    /\ cycle = 1
    /\ new_release = EmptyRelease
    /\ new_pr = NoPr
    /\ comment = <<>>
    /\ failures = 0
    /\ log = <<>>
    /\ ghLatest = V(1, 0, 0)
    /\ \/ /\ closedPRs \in PRLists
          /\ openIssues \in FewIssueLists
          /\ pypiLatest \in {V(0, 9, 0), V(1, 1, 0)}
          /\ conf \in Confs(BOOLEAN, BOOLEAN, {<<{"release"}>>})
       \/ /\ closedPRs \in FewPRLists
          /\ openIssues \in IssueLists
          /\ pypiLatest = V(1, 0, 0)
          /\ conf \in Confs({FALSE}, {TRUE}, {None, <<{"release"}>>})

(***************************************************************************)
(* History records.                                                        *)
(***************************************************************************)
\* op: the call; ok: "ok", "false" (a falsy return value) or "raise"; ver, arg,
\* num: the version, id and issue number it was made with; gl, pl: the latest
\* hosted release and package-index version when it was made; msgs: the comment
\* posted; seen: the open issues read
Ev(op, ok, ver, arg, gl, pl) ==
    [op |-> op, cyc |-> cycle, ok |-> ok, ver |-> ver, arg |-> arg,
     num |-> 0, gl |-> gl, pl |-> pl, msgs |-> <<>>, seen |-> <<>>]

IssueEv(op, ok, ver, id, number, msgs) ==
    [op |-> op, cyc |-> cycle, ok |-> ok, ver |-> ver, arg |-> id,
     num |-> number, gl |-> ghLatest, pl |-> pypiLatest, msgs |-> msgs, seen |-> <<>>]

NFailed(events) == Cardinality({i \in 1..Len(events) : events[i].ok # "ok"})

Raise(op) == Ev(op, "raise", BadText, NoId, ghLatest, pypiLatest)

CanFail(n) == failures + n <= MaxFailures

\* The text a release_handler appends (lines 220-221, 247-248, 276-277)
Msg(where, success, ver) == [where |-> where, success |-> success, ver |-> ver]

\* The finally clause of run (line 325): cleanup (lines 50-57)
Cleanup ==
    /\ new_release' = EmptyRelease
    /\ new_pr' = NoPr
    /\ comment' = <<>>

\* An exception leaves run(): the process ends
Terminate(events) ==
    /\ pc' = "terminated"
    /\ Cleanup
    /\ log' = log \o events
    /\ UNCHANGED <<cycle, ghLatest, pypiLatest, closedPRs, openIssues, conf>>

(***************************************************************************)
(* git.pull() (line 301), outside the inner try.                           *)
(***************************************************************************)
\* Variant: a caught ReleaseException does not end the work of the cycle
OnReleaseExceptionContinue == "issues"

\* lines 318-319: the except clause of run logs the ReleaseException raised
\* anywhere in lines 303-317 and the cycle goes on at line 321
OnReleaseException == "notify"

Pull ==
    /\ pc = "pull"
    /\ cycle <= MaxCycles
    /\ \/ /\ pc' = "load_conf"
          /\ UNCHANGED <<cycle, new_release, new_pr, comment, ghLatest, pypiLatest,
                         closedPRs, openIssues, conf, failures, log>>
       \/ /\ CanFail(1)
          /\ failures' = failures + 1
          /\ Terminate(<<Raise("git.pull")>>)

(***************************************************************************)
(* load_release_conf (lines 59-67).                                        *)
(***************************************************************************)
LoadReleaseConf ==
    /\ pc = "load_conf"
    /\ \/ /\ new_release' = [new_release EXCEPT !.fedora = conf.fedora,
                                !.trigger_on_issue = conf.trigger_on_issue,
                                !.labels = conf.labels]
          /\ pc' = "find_pr"
          /\ UNCHANGED <<failures, log>>
       \/ /\ CanFail(1)
          /\ failures' = failures + 1
          /\ log' = Append(log, Raise("get_configuration"))
          /\ pc' = OnReleaseException
          /\ UNCHANGED new_release
    /\ UNCHANGED <<cycle, new_pr, comment, ghLatest, pypiLatest, closedPRs,
                   openIssues, conf>>

(***************************************************************************)
(* find_newest_release_pull_request (lines 127-169) and the branch of run  *)
(* on its result (line 304).                                               *)
(***************************************************************************)
NextAfterFindPR(found) == IF found THEN "gh_release" ELSE "issues"

FindNewestReleasePullRequest ==
    /\ pc = "find_pr"
    /\ \/ /\ CanFail(1)
          /\ failures' = failures + 1
          /\ log' = Append(log, Raise("walk_through_prs"))
          /\ pc' = OnReleaseException
          /\ UNCHANGED <<cycle, new_release, new_pr, comment>>
       \/ LET r == FindNewestReleasePR(closedPRs, 0, ghLatest)
          IN  \/ /\ r.status = "found"
                 /\ new_release' = [new_release EXCEPT !.version = r.version,
                                       !.commitish = r.node.mergeCommit,
                                       !.pr_id = r.node.id]
                 /\ log' = Append(log, Ev("found_pr", "ok", r.version,
                                          r.node.mergeCommit, ghLatest, pypiLatest))
                 /\ pc' = NextAfterFindPR(TRUE)
                 /\ UNCHANGED <<cycle, new_pr, comment, failures>>
              \/ /\ r.status = "none"
                 /\ pc' = NextAfterFindPR(FALSE)
                 /\ UNCHANGED <<cycle, new_release, new_pr, comment, failures, log>>
              \/ /\ r.status = "crash"
                 /\ pc' = "terminated"
                 /\ Cleanup
                 /\ log' = Append(log, Ev("TypeError", "raise", r.version, r.node.id,
                                          ghLatest, pypiLatest))
                 /\ UNCHANGED <<cycle, failures>>
    /\ UNCHANGED <<ghLatest, pypiLatest, closedPRs, openIssues, conf>>

(***************************************************************************)
(* The "already released" test of the publication steps and of the pull    *)
(* request creation (lines 198, 231, 254).                                 *)
(***************************************************************************)
\* Variant: '>' for '>=', an equal version counts as not yet released
AlreadyReleasedStrict(latest, version) == VerLess(version, latest)

AlreadyReleased(latest, version) == VerGE(latest, version)

(***************************************************************************)
(* make_new_github_release (lines 218-243).                                *)
(***************************************************************************)
\* Variant: the changelog is updated before the release is made
UpdateChangelogFirst(events, gl) ==
    /\ log' = log \o <<Ev("update_changelog", "ok", new_release.version, NoId, gl,
                          pypiLatest)>> \o events
    /\ pc' = "pypi"
    /\ failures' = failures + NFailed(events)

\* github.update_changelog(version), line 242, and the return to run
UpdateChangelog(events, gl) ==
    \/ /\ log' = log \o events \o
                 <<Ev("update_changelog", "ok", new_release.version, NoId, gl, pypiLatest)>>
       /\ pc' = "pypi"
       /\ failures' = failures + NFailed(events)
    \/ /\ CanFail(1 + NFailed(events))
       /\ log' = log \o events \o
                 <<Ev("update_changelog", "raise", new_release.version, NoId, gl, pypiLatest)>>
       /\ pc' = OnReleaseException
       /\ failures' = failures + 1
                      + NFailed(events)

MakeNewGithubRelease ==
    /\ pc = "gh_release"
    /\ \/ /\ CanFail(1)
          /\ failures' = failures + 1
          /\ log' = Append(log, Raise("latest_release"))
          /\ pc' = OnReleaseException
          /\ UNCHANGED <<ghLatest, comment>>
       \/ /\ AlreadyReleased(ghLatest, new_release.version)
          /\ UpdateChangelog(<<>>, ghLatest)
          /\ UNCHANGED <<ghLatest, comment>>
       \/ /\ ~AlreadyReleased(ghLatest, new_release.version)
          /\ \/ /\ ghLatest' = new_release.version
                /\ comment' = Append(comment, Msg("Github", TRUE, new_release.version))
                /\ UpdateChangelog(<<Ev("make_new_release", "ok", new_release.version,
                                        new_release.commitish, ghLatest, pypiLatest)>>,
                                   new_release.version)
             \/ /\ CanFail(1)
                /\ UpdateChangelog(<<Ev("make_new_release", "false", new_release.version,
                                        new_release.commitish, ghLatest, pypiLatest)>>,
                                   ghLatest)
                /\ UNCHANGED <<ghLatest, comment>>
             \/ /\ CanFail(1)
                /\ failures' = failures + 1
                /\ comment' = Append(comment, Msg("Github", FALSE, new_release.version))
                /\ log' = Append(log, Ev("make_new_release", "raise", new_release.version,
                                         new_release.commitish, ghLatest, pypiLatest))
                /\ pc' = OnReleaseException
                /\ UNCHANGED ghLatest
    /\ UNCHANGED <<cycle, new_release, new_pr, pypiLatest, closedPRs, openIssues, conf>>

(***************************************************************************)
(* make_new_pypi_release (lines 245-266) and the branch of run on its      *)
(* result (lines 309-312).                                                 *)
(***************************************************************************)
\* Variant: the Fedora release is tried whatever make_new_pypi_release returned
NextAfterPypiAlways(released) == "fedora"

NextAfterPypi(released) == IF released THEN "fedora" ELSE "issues"

MakeNewPypiRelease ==
    /\ pc = "pypi"
    /\ \/ /\ AlreadyReleased(pypiLatest, new_release.version)
          /\ pc' = NextAfterPypi(FALSE)
          /\ UNCHANGED <<pypiLatest, comment, failures, log>>
       \/ /\ ~AlreadyReleased(pypiLatest, new_release.version)
          /\ \/ /\ CanFail(1)
                /\ failures' = failures + 1
                /\ log' = Append(log, Raise("git.checkout"))
                /\ pc' = OnReleaseException
                /\ UNCHANGED <<pypiLatest, comment>>
             \/ /\ pypiLatest' = new_release.version
                /\ comment' = Append(comment, Msg("PyPI", TRUE, new_release.version))
                /\ log' = Append(log, Ev("pypi.release", "ok", new_release.version,
                                         NoId, ghLatest, pypiLatest))
                /\ pc' = NextAfterPypi(TRUE)
                /\ UNCHANGED failures
             \/ /\ CanFail(1)
                /\ failures' = failures + 1
                /\ comment' = Append(comment, Msg("PyPI", FALSE, new_release.version))
                /\ log' = Append(log, Ev("pypi.release", "raise", new_release.version,
                                         NoId, ghLatest, pypiLatest))
                /\ pc' = OnReleaseException
                /\ UNCHANGED pypiLatest
    /\ UNCHANGED <<cycle, new_release, new_pr, ghLatest, closedPRs, openIssues, conf>>

(***************************************************************************)
(* make_new_fedora_release (lines 268-295).                                *)
(***************************************************************************)
\* line 269: self.new_release.get('fedora')
FedoraEnabled(release) == release.fedora

MakeNewFedoraRelease ==
    /\ pc = "fedora"
    /\ \/ /\ ~FedoraEnabled(new_release)
          /\ pc' = "issues"
          /\ UNCHANGED <<comment, failures, log>>
       \/ /\ FedoraEnabled(new_release)
          /\ \/ /\ CanFail(1)
                /\ failures' = failures + 1
                /\ comment' = Append(comment, Msg("Fedora", FALSE, BadText))
                /\ log' = Append(log, Raise("get_user_contact"))
                /\ pc' = OnReleaseException
             \/ \E success \in BOOLEAN :
                /\ success \/ CanFail(1)
                /\ failures' = IF success THEN failures ELSE failures + 1
                /\ comment' = Append(comment, Msg("Fedora", success, BadText))
                /\ log' = Append(log, Ev("fedora.release",
                                         IF success THEN "ok" ELSE "false",
                                         new_release.version, NoId, ghLatest, pypiLatest))
                /\ pc' = "issues"
             \/ /\ CanFail(1)
                /\ failures' = failures + 1
                /\ comment' = Append(comment, Msg("Fedora", FALSE, BadText))
                /\ log' = Append(log, Ev("fedora.release", "raise", new_release.version,
                                         NoId, ghLatest, pypiLatest))
                /\ pc' = OnReleaseException
    /\ UNCHANGED <<cycle, new_release, new_pr, ghLatest, pypiLatest, closedPRs,
                   openIssues, conf>>

(***************************************************************************)
(* The request path of run (lines 313-317): find_open_release_issues       *)
(* (lines 69-125) when trigger_on_issue is set.                            *)
(***************************************************************************)
NextAfterFindIssues(found, labels) ==
    IF ~found THEN "notify" ELSE IF labels # None THEN "labels" ELSE "make_pr"

FindOpenReleaseIssuesStep ==
    /\ pc = "issues"
    /\ \/ /\ ~new_release.trigger_on_issue
          /\ pc' = "notify"
          /\ UNCHANGED <<new_pr, failures, log>>
       \/ /\ new_release.trigger_on_issue
          /\ CanFail(1)
          /\ failures' = failures + 1
          /\ log' = Append(log, Raise("walk_through_open_issues"))
          /\ pc' = OnReleaseException
          /\ UNCHANGED new_pr
       \/ /\ new_release.trigger_on_issue
          /\ LET r == FindOpenReleaseIssues(openIssues, ghLatest, new_release.labels, new_pr)
             IN  /\ new_pr' = r.new_pr
                 /\ log' = Append(log,
                        [IssueEv("find_open_release_issues",
                                 IF r.found THEN "ok" ELSE "none", r.new_pr.version,
                                 r.new_pr.issue_id, r.new_pr.issue_number, <<>>)
                         EXCEPT !.seen = openIssues])
                 /\ pc' = NextAfterFindIssues(r.found, new_release.labels)
          /\ UNCHANGED failures
    /\ UNCHANGED <<cycle, new_release, comment, ghLatest, pypiLatest, closedPRs,
                   openIssues, conf>>

\* github.put_labels_on_issue (lines 314-316)
PutLabelsOnIssue ==
    /\ pc = "labels"
    /\ \/ /\ log' = Append(log, IssueEv("put_labels_on_issue", "ok", new_pr.version,
                                        new_pr.issue_id, new_pr.issue_number, <<>>))
          /\ pc' = "make_pr"
          /\ UNCHANGED failures
       \/ /\ CanFail(1)
          /\ failures' = failures + 1
          /\ log' = Append(log, IssueEv("put_labels_on_issue", "raise", new_pr.version,
                                        new_pr.issue_id, new_pr.issue_number, <<>>))
          /\ pc' = OnReleaseException
    /\ UNCHANGED <<cycle, new_release, new_pr, comment, ghLatest, pypiLatest, closedPRs,
                   openIssues, conf>>

(***************************************************************************)
(* github.add_comment(subject_id): posts self.comment on the subject and   *)
(* empties it; nothing is posted without a subject or without messages.    *)
(***************************************************************************)
AddCommentPosts(subject_id, messages) == subject_id # NoId /\ messages # <<>>

(***************************************************************************)
(* make_release_pull_request (lines 171-216).                              *)
(***************************************************************************)
\* Variant: the notification log is not set aside before the issue comment
PrHandlerPostsLog(success, backup, oComment, oClose) ==
    LET msg == Msg("PR", success, new_pr.version)
        posted == IssueEv("add_comment", oComment, new_pr.version, new_pr.issue_id,
                          new_pr.issue_number, Append(backup, msg))
        closing == IssueEv("close_issue", oClose, new_pr.version, new_pr.issue_id,
                           new_pr.issue_number, <<>>)
    IN  IF oComment = "raise"
          THEN [events |-> <<posted>>, comment |-> Append(backup, msg),
                raised |-> TRUE, closed |-> FALSE]
        ELSE IF ~success
          THEN [events |-> <<posted>>, comment |-> backup, raised |-> FALSE,
                closed |-> FALSE]
        ELSE [events |-> <<posted, closing>>, comment |-> backup,
              raised |-> oClose = "raise", closed |-> oClose = "ok"]

\* Variant: the issue is closed whether or not the pull request was made
PrHandlerAlwaysCloses(success, backup, oComment, oClose) ==
    LET msg == Msg("PR", success, new_pr.version)
        posted == IssueEv("add_comment", oComment, new_pr.version, new_pr.issue_id,
                          new_pr.issue_number, <<msg>>)
        closing == IssueEv("close_issue", oClose, new_pr.version, new_pr.issue_id,
                           new_pr.issue_number, <<>>)
    IN  IF oComment = "raise"
          THEN [events |-> <<posted>>, comment |-> <<msg>>, raised |-> TRUE,
                closed |-> FALSE]
        ELSE [events |-> <<posted, closing>>, comment |-> backup,
              raised |-> oClose = "raise", closed |-> oClose = "ok"]

\* pr_handler (lines 177-194) with the outcomes of add_comment and close_issue:
\* the calls made, the comment list left, whether it raised, whether it closed
PrHandler(success, backup, oComment, oClose) ==
    LET msg == Msg("PR", success, new_pr.version)
        posted == IssueEv("add_comment", oComment, new_pr.version, new_pr.issue_id,
                          new_pr.issue_number, <<msg>>)
        closing == IssueEv("close_issue", oClose, new_pr.version, new_pr.issue_id,
                           new_pr.issue_number, <<>>)
    IN  IF oComment = "raise"
          THEN [events |-> <<posted>>, comment |-> <<msg>>, raised |-> TRUE,
                closed |-> FALSE]
        ELSE IF ~success
          THEN [events |-> <<posted>>, comment |-> backup, raised |-> FALSE,
                closed |-> FALSE]
        ELSE [events |-> <<posted, closing>>, comment |-> backup,
              raised |-> oClose = "raise", closed |-> oClose = "ok"]

\* lines 205-216: github.make_release_pr with outcome oPr, then the handlers
MakeReleasePr(oPr, oComment, oClose, oComment2) ==
    LET made == IssueEv("make_release_pr", oPr, new_pr.version, new_pr.issue_id,
                        new_pr.issue_number, <<>>)
        h1 == PrHandler(TRUE, comment, oComment, oClose)
        h2 == PrHandler(FALSE, IF oPr = "ok" THEN h1.comment ELSE comment, oComment2, "ok")
    IN  IF oPr = "false"
          THEN [events |-> <<made>>, comment |-> comment, closed |-> FALSE]
        ELSE IF oPr = "ok" /\ ~h1.raised
          THEN [events |-> <<made>> \o h1.events, comment |-> h1.comment,
                closed |-> h1.closed]
        ELSE IF oPr = "ok"
          THEN [events |-> <<made>> \o h1.events \o h2.events, comment |-> h2.comment,
                closed |-> FALSE]
        ELSE [events |-> <<made>> \o h2.events, comment |-> h2.comment, closed |-> FALSE]

\* github.close_issue(number): the issue is no longer open
CloseIssue(list, number) ==
    SelectSeq(list, LAMBDA node : node.number # number)

MakeReleasePullRequest ==
    /\ pc = "make_pr"
    /\ pc' = "notify"
    /\ \/ /\ CanFail(1)
          /\ failures' = failures + 1
          /\ log' = Append(log, IssueEv("latest_release", "raise", new_pr.version,
                                        new_pr.issue_id, new_pr.issue_number, <<>>))
          /\ UNCHANGED <<new_pr, comment, openIssues>>
       \/ /\ AlreadyReleased(ghLatest, new_pr.version)
          /\ new_pr' = [new_pr EXCEPT !.previous_version = ghLatest]
          /\ UNCHANGED <<comment, openIssues, failures, log>>
       \/ /\ ~AlreadyReleased(ghLatest, new_pr.version)
          /\ \E oPr \in {"ok", "false", "raise"}, oComment, oClose, oComment2 \in {"ok", "raise"} :
                LET r == MakeReleasePr(oPr, oComment, oClose, oComment2)
                IN  /\ CanFail(NFailed(r.events))
                    /\ failures' = failures + NFailed(r.events)
                    /\ log' = log \o r.events
                    /\ comment' = r.comment
                    /\ openIssues' = IF r.closed
                                       THEN CloseIssue(openIssues, new_pr.issue_number)
                                       ELSE openIssues
                    /\ new_pr' = [new_pr EXCEPT !.previous_version = ghLatest,
                                     !.pr_url = IF oPr = "ok" THEN "url" ELSE @]
    /\ UNCHANGED <<cycle, new_release, ghLatest, pypiLatest, closedPRs, conf>>

(***************************************************************************)
(* The end of the cycle (lines 321-323): github.add_comment on the release *)
(* pull request, then the sleep; the next cycle starts at git.pull.        *)
(***************************************************************************)
Notify ==
    /\ pc = "notify"
    /\ \/ /\ ~AddCommentPosts(new_release.pr_id, comment)
          /\ pc' = "pull"
          /\ cycle' = cycle + 1
          /\ UNCHANGED <<new_release, new_pr, comment, failures, log>>
       \/ /\ AddCommentPosts(new_release.pr_id, comment)
          /\ pc' = "pull"
          /\ cycle' = cycle + 1
          /\ comment' = <<>>
          /\ log' = Append(log, [Ev("add_comment", "ok", new_release.version,
                                    new_release.pr_id, ghLatest, pypiLatest)
                                 EXCEPT !.msgs = comment])
          /\ UNCHANGED <<new_release, new_pr, failures>>
          /\ UNCHANGED <<ghLatest, pypiLatest, closedPRs, openIssues, conf>>
       \/ /\ AddCommentPosts(new_release.pr_id, comment)
          /\ CanFail(1)
          /\ failures' = failures + 1
          /\ Terminate(<<[Ev("add_comment", "raise", new_release.version,
                             new_release.pr_id, ghLatest, pypiLatest)
                          EXCEPT !.msgs = comment]>>)
    /\ UNCHANGED <<ghLatest, pypiLatest, closedPRs, openIssues, conf>>

Next ==
    \/ Pull
    \/ LoadReleaseConf
    \/ FindNewestReleasePullRequest
    \/ MakeNewGithubRelease
    \/ MakeNewPypiRelease
    \/ MakeNewFedoraRelease
    \/ FindOpenReleaseIssuesStep
    \/ PutLabelsOnIssue
    \/ MakeReleasePullRequest
    \/ Notify

Spec == Init /\ [][Next]_vars

(***************************************************************************)
(* Reading the history.                                                    *)
(***************************************************************************)
Idx == 1..Len(log)

Cycles == 1..(MaxCycles + 1)

Is(i, op) == log[i].op = op

InCycle(i, c) == log[i].cyc = c

\* No collaborator call of cycle c failed so far
CleanCycle(c) == \A i \in Idx : InCycle(i, c) => log[i].ok = "ok"

\* The publication phase of cycle c is over
PublishDone(c) ==
    \/ cycle > c
    \/ cycle = c /\ pc \in {"issues", "labels", "make_pr", "notify"}

PublishOps == {"make_new_release", "update_changelog", "pypi.release", "fedora.release"}

\* The publication calls of cycle c in the order they were made: <<op, ver, arg>>
RECURSIVE PublishCalls(_, _)
PublishCalls(c, n) ==
    IF n = 0 THEN <<>>
    ELSE IF InCycle(n, c) /\ log[n].op \in PublishOps
      THEN Append(PublishCalls(c, n - 1), <<log[n].op, log[n].ver, log[n].arg>>)
    ELSE PublishCalls(c, n - 1)

IssueOps == {"put_labels_on_issue", "make_release_pr", "close_issue"}

IssueIds == {"i1", "i2", "i3"}

\* A call that acts on an issue: a label, a pull request, a close or a comment
ActsOnIssue(i) ==
    \/ log[i].op \in IssueOps
    \/ Is(i, "add_comment") /\ log[i].arg \in IssueIds

\* The release issues among the open issues read: privileged author, valid version
QualifyingIssues(seen, latest) ==
    {n \in 1..Len(seen) :
        /\ TitleMatch(seen[n].title, latest).match
        /\ validate(TitleMatch(seen[n].title, latest).version)
        /\ seen[n].authorAssociation \in {"MEMBER", "OWNER", "COLLABORATOR"}}

QualifyingVersions(seen, latest) ==
    {TitleMatch(seen[n].title, latest).version : n \in QualifyingIssues(seen, latest)}

(***************************************************************************)
(* C1: over any sequence of poll cycles at most one successful             *)
(* github.make_new_release is made for a given merge commit.               *)
(***************************************************************************)
C1_OneReleasePerMergeCommit ==
    \A i, j \in Idx :
        /\ Is(i, "make_new_release") /\ log[i].ok = "ok"
        /\ Is(j, "make_new_release") /\ log[j].ok = "ok"
        /\ log[i].arg = log[j].arg
        => i = j

(***************************************************************************)
(* C2: after a cycle that made the Github release, the PyPI release and    *)
(* (when enabled) the Fedora release successfully, the next cycle makes no *)
(* make_new_release, pypi.release, fedora.release, update_changelog or     *)
(* add_comment call.                                                       *)
(***************************************************************************)
FullPublication(c) ==
    /\ CleanCycle(c)
    /\ \E i \in Idx : InCycle(i, c) /\ Is(i, "make_new_release")
    /\ \E i \in Idx : InCycle(i, c) /\ Is(i, "pypi.release")
    /\ conf.fedora => \E i \in Idx : InCycle(i, c) /\ Is(i, "fedora.release")
    /\ cycle > c

C2_NextCycleHasNoSideEffects ==
    \A c \in Cycles :
        FullPublication(c) =>
            \A i \in Idx :
                InCycle(i, c + 1) => log[i].op \notin (PublishOps \cup {"add_comment"})

(***************************************************************************)
(* C3: in a cycle whose discovery yields version V with merge commit C, V  *)
(* above the latest hosted release, and in which no call fails, the        *)
(* publication calls are, in this order: make_new_release(V, C),           *)
(* update_changelog(V), pypi.release (only if the package index is below   *)
(* V), fedora.release once (only after that publish and only if enabled).  *)
(***************************************************************************)
ExpectedPublication(f) ==
    <<<<"make_new_release", f.ver, f.arg>>, <<"update_changelog", f.ver, NoId>>>>
    \o (IF VerLess(f.pl, f.ver)
          THEN <<<<"pypi.release", f.ver, NoId>>>>
               \o (IF conf.fedora THEN <<<<"fedora.release", f.ver, NoId>>>> ELSE <<>>)
          ELSE <<>>)

C3_PublicationOrder ==
    \A i \in Idx :
        /\ Is(i, "found_pr")
        /\ VerLess(log[i].gl, log[i].ver)
        /\ CleanCycle(log[i].cyc)
        /\ PublishDone(log[i].cyc)
        => PublishCalls(log[i].cyc, Len(log)) = ExpectedPublication(log[i])

C3_Witness ==
    \E i, j \in Idx :
        /\ Is(i, "found_pr") /\ VerLess(log[i].gl, log[i].ver)
        /\ log[i].cyc = cycle /\ pc = "notify" /\ CleanCycle(cycle)
        /\ Is(j, "fedora.release") /\ InCycle(j, cycle)

(***************************************************************************)
(* C4: when in one cycle the Github release of V succeeds and pypi.release *)
(* raises, the next cycle that finds the same merged pull request makes no *)
(* make_new_release call and calls pypi.release for V again.               *)
(***************************************************************************)
C4_ResumeAtPypi ==
    \A i, j, k \in Idx :
        /\ Is(i, "make_new_release") /\ log[i].ok = "ok"
        /\ Is(j, "pypi.release") /\ log[j].ok = "raise"
        /\ log[j].cyc = log[i].cyc /\ log[j].ver = log[i].ver
        /\ Is(k, "found_pr") /\ log[k].cyc = log[i].cyc + 1 /\ log[k].arg = log[i].arg
        /\ PublishDone(log[k].cyc)
        /\ \A n \in Idx : InCycle(n, log[k].cyc) /\ log[n].ok = "raise"
                             => Is(n, "pypi.release")
        => /\ \A n \in Idx : InCycle(n, log[k].cyc) => ~Is(n, "make_new_release")
           /\ \E n \in Idx : /\ InCycle(n, log[k].cyc) /\ Is(n, "pypi.release")
                             /\ log[n].ver = log[i].ver

(***************************************************************************)
(* C5: make_new_release is called only when the latest hosted release is   *)
(* strictly below the requested version, pypi.release only when the latest *)
(* package-index version is strictly below it; when the requested version  *)
(* is at or below both, the cycle publishes nothing, does not trigger      *)
(* Fedora and appends nothing to the notification log.                     *)
(***************************************************************************)
HasPublicationLine(messages) ==
    \E n \in 1..Len(messages) : messages[n].where \in {"Github", "PyPI", "Fedora"}

C5_PublishOnlyNewer ==
    /\ \A i \in Idx : Is(i, "make_new_release") => VerLess(log[i].gl, log[i].ver)
    /\ \A i \in Idx : Is(i, "pypi.release") => VerLess(log[i].pl, log[i].ver)
    /\ \A i \in Idx :
          /\ Is(i, "found_pr")
          /\ VerGE(log[i].gl, log[i].ver) /\ VerGE(log[i].pl, log[i].ver)
          => /\ \A n \in Idx :
                  InCycle(n, log[i].cyc) =>
                      /\ log[n].op \notin {"make_new_release", "pypi.release",
                                           "fedora.release"}
                      /\ ~HasPublicationLine(log[n].msgs)
             /\ cycle = log[i].cyc => ~HasPublicationLine(comment)

C5_Witness ==
    \E i \in Idx :
        /\ Is(i, "found_pr")
        /\ VerGE(log[i].gl, log[i].ver) /\ VerGE(log[i].pl, log[i].ver)
        /\ cycle > log[i].cyc

(***************************************************************************)
(* C6: fedora.release is called only if pypi.release was called and        *)
(* returned without error earlier in the same cycle, and the release       *)
(* configuration enables Fedora.                                           *)
(***************************************************************************)
C6_FedoraOnlyAfterFreshPypi ==
    \A i \in Idx :
        Is(i, "fedora.release") =>
            /\ conf.fedora
            /\ \E j \in 1..(i - 1) :
                  Is(j, "pypi.release") /\ log[j].ok = "ok" /\ log[j].cyc = log[i].cyc

C6_Witness ==
    \E i, k \in Idx :
        /\ Is(i, "fedora.release")
        /\ Is(k, "found_pr") /\ log[k].cyc = log[i].cyc + 1
        /\ log[k].ver = log[i].ver /\ cycle > log[k].cyc

(***************************************************************************)
(* C7: across all cycles fedora.release is called at most once for a       *)
(* release version.                                                        *)
(***************************************************************************)
C7_FedoraAtMostOncePerVersion ==
    \A i, j \in Idx :
        Is(i, "fedora.release") /\ Is(j, "fedora.release") /\ log[i].ver = log[j].ver
        => i = j

C7_Witness ==
    \E i, k \in Idx :
        /\ Is(i, "fedora.release") /\ log[i].ok = "ok"
        /\ Is(k, "update_changelog") /\ log[k].cyc = log[i].cyc + 1
        /\ log[k].ver = log[i].ver /\ PublishDone(log[k].cyc)

(***************************************************************************)
(* C8: every make_release_pr, put_labels_on_issue and close_issue call is  *)
(* made for an issue whose authorAssociation is MEMBER, OWNER or           *)
(* COLLABORATOR.                                                           *)
(***************************************************************************)
\* The issue of number n among the open issues read in cycle c is privileged
PrivilegedIssue(c, n) ==
    \E k \in Idx :
        /\ Is(k, "find_open_release_issues") /\ InCycle(k, c)
        /\ \E m \in 1..Len(log[k].seen) :
              /\ log[k].seen[m].number = n
              /\ log[k].seen[m].authorAssociation \in {"MEMBER", "OWNER", "COLLABORATOR"}

C8_OnlyPrivilegedIssues ==
    \A i \in Idx : log[i].op \in IssueOps => PrivilegedIssue(log[i].cyc, log[i].num)

C8_Witness ==
    \E i, k \in Idx :
        /\ Is(i, "close_issue") /\ log[i].ok = "ok"
        /\ Is(k, "find_open_release_issues") /\ log[k].cyc = log[i].cyc
        /\ \E m \in 1..Len(log[k].seen) :
              /\ TitleMatch(log[k].seen[m].title, log[k].gl).match
              /\ validate(TitleMatch(log[k].seen[m].title, log[k].gl).version)
              /\ log[k].seen[m].authorAssociation
                     \notin {"MEMBER", "OWNER", "COLLABORATOR"}

(***************************************************************************)
(* C9: when the open issues hold qualifying release issues of more than    *)
(* one version, find_open_release_issues returns False and the cycle acts  *)
(* on no issue: no label, no pull request, no comment, no close.           *)
(***************************************************************************)
C9_SeveralVersionsAbort ==
    \A k \in Idx :
        /\ Is(k, "find_open_release_issues")
        /\ Cardinality(QualifyingVersions(log[k].seen, log[k].gl)) > 1
        => /\ log[k].ok = "none"
           /\ \A i \in Idx : InCycle(i, log[k].cyc) => ~ActsOnIssue(i)

C9_Witness ==
    \E k \in Idx :
        /\ Is(k, "find_open_release_issues")
        /\ Cardinality(QualifyingVersions(log[k].seen, log[k].gl)) > 1
        /\ cycle > log[k].cyc

(***************************************************************************)
(* C10: whenever two or more qualifying release issues are open, whatever  *)
(* versions they resolve to, find_open_release_issues returns False and no *)
(* pull request is made in that cycle.                                     *)
(***************************************************************************)
C10_SeveralIssuesAbort ==
    \A k \in Idx :
        /\ Is(k, "find_open_release_issues")
        /\ Cardinality(QualifyingIssues(log[k].seen, log[k].gl)) > 1
        => /\ log[k].ok = "none"
           /\ \A i \in Idx : InCycle(i, log[k].cyc) => ~Is(i, "make_release_pr")

(***************************************************************************)
(* C11: github.make_release_pr is called only when the latest hosted       *)
(* release is strictly below the version the issue asks for; for a stale   *)
(* issue (latest release at or above it) the phase opens no pull request,  *)
(* posts no comment and does not close the issue, in any cycle.            *)
(***************************************************************************)
StaleIssueFound(k) ==
    /\ Is(k, "find_open_release_issues") /\ log[k].ok = "ok"
    /\ VerGE(log[k].gl, log[k].ver)

C11_NoPullRequestForStaleIssue ==
    /\ \A i \in Idx : Is(i, "make_release_pr") => VerLess(log[i].gl, log[i].ver)
    /\ \A k \in Idx :
          StaleIssueFound(k) =>
              /\ \A i \in Idx :
                    InCycle(i, log[k].cyc) =>
                        /\ log[i].op \notin {"make_release_pr", "close_issue"}
                        /\ ~(Is(i, "add_comment") /\ log[i].arg \in IssueIds)
              /\ \E n \in 1..Len(openIssues) : openIssues[n].number = log[k].num

C11_Witness ==
    \E k, m \in Idx :
        /\ StaleIssueFound(k) /\ StaleIssueFound(m)
        /\ log[m].cyc = log[k].cyc + 1 /\ log[m].num = log[k].num
        /\ CleanCycle(log[k].cyc) /\ CleanCycle(log[m].cyc)
        /\ cycle > log[m].cyc

(***************************************************************************)
(* Reading the pull request creation phase of a cycle.                     *)
(***************************************************************************)
\* The add_comment calls of cycle c on issue id saying success / failure
IssueComments(c, id, success, outcomes) ==
    {i \in Idx : /\ InCycle(i, c) /\ Is(i, "add_comment") /\ log[i].arg = id
                 /\ log[i].ok \in outcomes
                 /\ log[i].msgs = <<Msg("PR", success, log[i].ver)>>}

\* The close_issue calls of cycle c on issue id
IssueCloses(c, id, outcomes) ==
    {i \in Idx : /\ InCycle(i, c) /\ Is(i, "close_issue") /\ log[i].arg = id
                 /\ log[i].ok \in outcomes}

\* A call of the handler itself (add_comment, close_issue) raised in cycle c
HandlerRaised(c) ==
    \E i \in Idx : /\ InCycle(i, c) /\ log[i].op \in {"add_comment", "close_issue"}
                   /\ log[i].arg \in IssueIds /\ log[i].ok = "raise"

C13_ReleaseExceptionCaughtInCycle ==
    \A i \in Idx :
        (log[i].ok = "raise" /\ log[i].op # "TypeError") =>
            /\ ~(pc = "terminated" /\ i = Len(log))
            /\ cycle = log[i].cyc => pc = "notify"

(***************************************************************************)
(* C14: at the start of every poll cycle new_release, new_pr and the       *)
(* notification log are empty, so nothing written in an earlier cycle is   *)
(* readable in a later one; the same reset happens on shutdown.            *)
(***************************************************************************)
C14_StateResetAtCycleStart ==
    /\ pc = "pull" =>
          /\ new_release = EmptyRelease
          /\ new_pr = NoPr
          /\ comment = <<>>
    /\ pc = "terminated" =>
          /\ new_release = EmptyRelease
          /\ new_pr = NoPr
          /\ comment = <<>>

(***************************************************************************)
(* Reading the notifications of a cycle.                                   *)
(***************************************************************************)
\* The end-of-cycle flush: add_comment on a pull request
Flush(i) == Is(i, "add_comment") /\ log[i].arg \notin IssueIds

\* The comment pr_handler posts on the source issue
IssueComment(i) == Is(i, "add_comment") /\ log[i].arg \in IssueIds

\* The pull request with id was found by PR discovery in cycle c
FoundInCycle(id, c) ==
    \E k \in Idx, n \in 1..Len(closedPRs) :
        /\ InCycle(k, c) /\ Is(k, "found_pr")
        /\ closedPRs[n].id = id /\ closedPRs[n].mergeCommit = log[k].arg

C16_UnmergedPullRequestSkipped ==
    /\ \A i \in Idx : Is(i, "found_pr") => log[i].arg # NoId
    /\ \A i \in Idx : ~Is(i, "TypeError")

(***************************************************************************)
(* C17: every attempt of a publication step (github.make_new_release,      *)
(* pypi.release, fedora.release) appends exactly one line to the           *)
(* notification log, whether it reports success, reports failure by its    *)
(* return value or raises; a step skipped as already done appends none.    *)
(***************************************************************************)
PublicationStep == pc \in {"gh_release", "pypi", "fedora"}

C17_OneLinePerAttempt ==
    [][PublicationStep =>
          LET new == {i \in (Len(log) + 1)..Len(log') : TRUE}
              attempts == {i \in new : log'[i].op \in {"make_new_release",
                                                       "pypi.release",
                                                       "fedora.release"}}
              raises == {i \in new : log'[i].ok = "raise"}
          IN  /\ attempts # {} =>
                    /\ Cardinality(attempts) = 1
                    /\ Len(comment') = Len(comment) + 1
                    /\ SubSeq(comment', 1, Len(comment)) = comment
                    /\ comment'[Len(comment')].ver \in {new_release.version, BadText}
              /\ (attempts = {} /\ raises = {}) => comment' = comment]_vars

(***************************************************************************)
(* C18: posting the PR-creation comment on the source issue leaves the     *)
(* accumulated notification log unchanged: the issue comment contains only *)
(* the PR-creation message, and the publication messages accumulated       *)
(* earlier in the same cycle are all still in the log afterwards and are   *)
(* flushed to the release pull request at cycle end.                       *)
(***************************************************************************)
\* The publication lines the handlers of cycle c appended to the log
PublicationLines(c) ==
    {Msg("Github", log[i].ok = "ok", log[i].ver) :
        i \in {k \in Idx : /\ InCycle(k, c) /\ Is(k, "make_new_release")
                           /\ log[k].ok \in {"ok", "raise"}}}
    \cup {Msg("PyPI", log[i].ok = "ok", log[i].ver) :
        i \in {k \in Idx : InCycle(k, c) /\ Is(k, "pypi.release")}}
    \cup {Msg("Fedora", log[i].ok = "ok", BadText) :
        i \in {k \in Idx : /\ InCycle(k, c)
                           /\ log[k].op \in {"fedora.release", "get_user_contact"}}}

Lines(messages) == {messages[n] : n \in 1..Len(messages)}

C18_IssueCommentKeepsLog ==
    \A i \in Idx :
        (IssueComment(i) /\ log[i].ok = "ok") =>
            /\ \E s \in BOOLEAN : log[i].msgs = <<Msg("PR", s, log[i].ver)>>
            /\ (cycle = log[i].cyc /\ pc = "notify") =>
                   /\ PublicationLines(cycle) \subseteq Lines(comment)
                   /\ ~\E s \in BOOLEAN : Msg("PR", s, log[i].ver) \in Lines(comment)
            /\ \A j \in Idx :
                   (Flush(j) /\ InCycle(j, log[i].cyc)) =>
                       /\ PublicationLines(log[i].cyc) \subseteq Lines(log[j].msgs)
                       /\ ~\E s \in BOOLEAN : Msg("PR", s, log[i].ver) \in Lines(log[j].msgs)

(***************************************************************************)
(* C19: if fedora.release fails (returns False or raises) in the cycle     *)
(* that freshly published version V to the package index, no later cycle   *)
(* invokes fedora.release for V: the failed trigger is never retried.      *)
(***************************************************************************)
\* fedora.release failed at event i, in a cycle that published to PyPI
FedoraFailed(i) ==
    /\ Is(i, "fedora.release") /\ log[i].ok \in {"false", "raise"}
    /\ \E k \in Idx : /\ k < i /\ InCycle(k, log[i].cyc) /\ Is(k, "pypi.release")
                      /\ log[k].ok = "ok" /\ log[k].ver = log[i].ver

C19_FailedFedoraNotRetried ==
    \A i \in Idx :
        FedoraFailed(i) =>
            \A j \in Idx :
                (log[j].cyc > log[i].cyc /\ log[j].ver = log[i].ver) =>
                    log[j].op \notin {"fedora.release", "get_user_contact"}

C19_Witness ==
    \E i, k \in Idx :
        /\ FedoraFailed(i)
        /\ Is(k, "found_pr") /\ log[k].cyc = log[i].cyc + 1 /\ log[k].ver = log[i].ver
        /\ cycle > log[k].cyc

(***************************************************************************)
(* C20: within one cycle a ReleaseException raised in the publish path     *)
(* (configuration load, PR discovery, code-hosting release, package-index  *)
(* publish, downstream trigger) skips all remaining work of that cycle,    *)
(* the whole request path included: the only action still performed in    *)
(* that cycle is the end-of-cycle notification flush, and an open release  *)
(* issue is not acted on until a later cycle.                              *)
(***************************************************************************)
PublishPathRaise(i) ==
    /\ log[i].ok = "raise"
    /\ \/ log[i].op \in {"get_configuration", "walk_through_prs", "make_new_release",
                         "update_changelog", "git.checkout", "pypi.release",
                         "get_user_contact", "fedora.release"}
       \/ Is(i, "latest_release") /\ log[i].arg = NoId

C20_PublishFailureSkipsRequestPath ==
    \A i \in Idx :
        PublishPathRaise(i) =>
            /\ \A j \in Idx : (j > i /\ InCycle(j, log[i].cyc)) => Flush(j)
            /\ \A j \in Idx :
                  InCycle(j, log[i].cyc) =>
                      /\ ~ActsOnIssue(j)
                      /\ log[j].op \notin {"walk_through_open_issues",
                                           "find_open_release_issues"}
            /\ cycle = log[i].cyc => pc \in {"notify", "terminated"}

C20_Witness ==
    \E i, j, k \in Idx :
        /\ PublishPathRaise(i)
        /\ Flush(j) /\ log[j].ok = "ok" /\ InCycle(j, log[i].cyc)
        /\ Is(k, "make_release_pr") /\ log[k].cyc = log[i].cyc + 1
        /\ conf.trigger_on_issue

====
